---- MODULE Spec2Model ----
(***************************************************************************)
(* Model of src/index.js (class TsFileAnalyzer): the line classifier       *)
(* countCodeLines, the directory walker findTsFiles with the ignore rules, *)
(* and the analyze pipeline (analyzeFile, filter, generateReport).         *)
(*                                                                         *)
(* Text is a sequence of one-character strings.  The alphabet of a source  *)
(* line is "/", "*", " " (white space) and the letter "i".  At the start   *)
(* of a line and followed by white space the letter is the keyword of      *)
(* /^(import|export)\s/ written as one letter; anywhere else it is an      *)
(* ordinary character ("ii" is an identifier).                             *)
(***************************************************************************)
EXTENDS Integers, Sequences, FiniteSets, TLC

(* ------------------------------ bounds -------------------------------- *)
MaxLen == 6      \* longest source line, in characters
MaxLines == 2    \* most lines one run of countCodeLines consumes
MaxEntries == 2  \* most entries one directory lists
MaxDirs == 2     \* most directories readdirSync reads with success
MaxFiles == 2    \* most files findTsFiles hands to analyze
MaxFileLines == 2     \* most lines of one analyzed file

(* ------------------------------ text ---------------------------------- *)
LineChars == {"/", "*", " ", "i"}

OPENER == <<"/", "*">>
TERMINATOR == <<"*", "/">>
SLASHES == <<"/", "/">>

RECURSIVE StringsUpTo(_, _)
StringsUpTo(chars, n) ==
    IF n = 0 THEN {<<>>}
    ELSE LET shorter == StringsUpTo(chars, n - 1)
         IN  shorter \cup {Append(s, c) : s \in {t \in shorter : Len(t) = n - 1}, c \in chars}

Lines == StringsUpTo(LineChars, MaxLen)

IsSpace(c) == c = " "

\* String.prototype.trim
Trim(s) ==
    LET keep == {i \in 1..Len(s) : ~IsSpace(s[i])}
    IN  IF keep = {} THEN <<>>
        ELSE LET lo == CHOOSE i \in keep : \A j \in keep : i <= j
                 hi == CHOOSE i \in keep : \A j \in keep : j <= i
             IN  SubSeq(s, lo, hi)

\* pat occurs in s at position i
OccursAt(s, pat, i) ==
    /\ i >= 1
    /\ i + Len(pat) - 1 <= Len(s)
    /\ \A k \in 1..Len(pat) : s[i + k - 1] = pat[k]

\* String.prototype.indexOf, 1-based, 0 when absent; the search starts at from
IndexOf(s, pat, from) ==
    LET hits == {i \in from..Len(s) : OccursAt(s, pat, i)}
    IN  IF hits = {} THEN 0 ELSE CHOOSE i \in hits : \A j \in hits : i <= j

\* String.prototype.includes
Includes(s, pat) == IndexOf(s, pat, 1) # 0

\* String.prototype.startsWith
StartsWith(s, pat) == OccursAt(s, pat, 1)

\* s.split(pat)[0]
BeforeFirst(s, pat) ==
    LET i == IndexOf(s, pat, 1)
    IN  IF i = 0 THEN s ELSE SubSeq(s, 1, i - 1)

\* s.split(pat).slice(1).join(pat)
AfterFirst(s, pat) ==
    LET i == IndexOf(s, pat, 1)
    IN  IF i = 0 THEN <<>> ELSE SubSeq(s, i + Len(pat), Len(s))

\* s.match(/\/\*.*\*\//): an opener and, at or after its end, a terminator
MatchesBlock(s) ==
    \E i \in 1..Len(s) : OccursAt(s, OPENER, i) /\ IndexOf(s, TERMINATOR, i + 2) # 0

\* s.replace(/\/\*.*?\*\//g, ''): leftmost opener that is closed, shortest
\* match, then on from the end of the match
RECURSIVE StripBlocks(_)
StripBlocks(s) ==
    LET starts == {i \in 1..Len(s) :
                      OccursAt(s, OPENER, i) /\ IndexOf(s, TERMINATOR, i + 2) # 0}
    IN  IF starts = {} THEN s
        ELSE LET i == CHOOSE a \in starts : \A b \in starts : a <= b
                 j == IndexOf(s, TERMINATOR, i + 2)
             IN  SubSeq(s, 1, i - 1) \o StripBlocks(SubSeq(s, j + 2, Len(s)))

\* /^(import|export)\s/.test(s)
IsImport(s) == Len(s) >= 2 /\ s[1] = "i" /\ IsSpace(s[2])

(* ------------------------------ state --------------------------------- *)
VARIABLES
    pc,                  \* position in countCodeLines
    line,                \* the line of the current iteration
    nread,               \* lines taken from the iterator so far
    codeLines, commentLines, emptyLines, importLines,
    inMultiLineComment,
    before,              \* the counters and the mode at the start of the iteration
    gitignorePatterns,   \* this.gitignorePatterns: the compiled regular expressions
    stack,               \* the findTsFiles calls in progress, innermost last
    files,               \* the files array shared by the findTsFiles calls
    listed,              \* every directory entry readdirSync has returned
    dirsRead,            \* the number of directories read with success
    failures,            \* the directories whose read threw
    tsFiles,             \* analyze: the handles findTsFiles returned
    mapped,              \* analyze: the records tsFiles.map has produced so far
    outcomes,            \* how the read of each mapped file went
    fileStats,           \* analyze: the records that passed the filter
    report,              \* what generateReport printed
    ranking              \* what showRankings printed

classifierVars == <<line, nread, codeLines, commentLines, emptyLines, importLines,
                    inMultiLineComment, before>>
walkerVars == <<gitignorePatterns, stack, files, listed, dirsRead, failures>>
analyzeVars == <<tsFiles, mapped, outcomes, fileStats, report, ranking>>
vars == <<pc, classifierVars, walkerVars, analyzeVars>>

Counters ==
    [codeLines |-> codeLines, commentLines |-> commentLines,
     emptyLines |-> emptyLines, importLines |-> importLines,
     inMultiLineComment |-> inMultiLineComment]

ZeroCounters ==
    [codeLines |-> 0, commentLines |-> 0, emptyLines |-> 0, importLines |-> 0,
     inMultiLineComment |-> FALSE]

\* the three parts before any of their code has run
ClassifierAtStart ==
    /\ line = <<>>
    /\ nread = 0
    /\ codeLines = 0 /\ commentLines = 0 /\ emptyLines = 0 /\ importLines = 0
    /\ inMultiLineComment = FALSE
    /\ before = ZeroCounters

WalkerAtStart ==
    /\ gitignorePatterns = <<>>
    /\ stack = <<>>
    /\ files = <<>>
    /\ listed = {}
    /\ dirsRead = 0
    /\ failures = {}

AnalyzeAtStart ==
    /\ tsFiles = <<>>
    /\ mapped = <<>>
    /\ outcomes = <<>>
    /\ fileStats = <<>>
    /\ report = <<>>
    /\ ranking = <<>>

(* ------------------------- countCodeLines ----------------------------- *)
\* variant of EmptyLine: the block-comment test ahead of the empty-line test
EmptyLineCountsComment(st) ==
    [st EXCEPT !.emptyLines = @ + 1,
               !.commentLines = IF st.inMultiLineComment THEN @ + 1 ELSE @]

\* the empty-line branch
EmptyLine(st) == [st EXCEPT !.emptyLines = @ + 1]

\* inside a block comment, no terminator on the line
InsideComment(st) == [st EXCEPT !.commentLines = @ + 1]

\* variant of BlockStart: the text before the opener is not looked at
BlockStartNoCode(st, processedLine) ==
    [st EXCEPT !.inMultiLineComment = TRUE, !.commentLines = @ + 1]

\* an opener that is not closed on the line
BlockStart(st, processedLine) ==
    LET beforeComment == Trim(BeforeFirst(processedLine, OPENER))
        hasCode == beforeComment # <<>>
    IN  [st EXCEPT !.inMultiLineComment = TRUE,
                   !.commentLines = @ + 1,
                   !.codeLines = IF hasCode THEN @ + 1 ELSE @]

\* the rest of the body: closed block comments, line comments, code
CodeAndComments(st, processedLine) ==
    LET hasBlock == MatchesBlock(processedLine)
        p2 == IF hasBlock THEN Trim(StripBlocks(processedLine)) ELSE processedLine
        c1 == IF hasBlock THEN 1 ELSE 0
    IN  IF StartsWith(p2, SLASHES)
        THEN [st EXCEPT !.commentLines = @ + c1 + 1]
        ELSE LET hasLineComment == Includes(p2, SLASHES)
                 p3 == IF hasLineComment THEN Trim(BeforeFirst(p2, SLASHES)) ELSE p2
                 c2 == IF hasLineComment THEN 1 ELSE 0
                 hasCode == p3 # <<>>
             IN  [st EXCEPT !.commentLines = @ + c1 + c2,
                            !.importLines = IF hasCode /\ IsImport(p3) THEN @ + 1 ELSE @,
                            !.codeLines = IF hasCode THEN @ + 1 ELSE @]

\* a terminator met inside a block comment: leave the comment, keep the rest
CloseComment(st, processedLine) ==
    [st |-> [st EXCEPT !.inMultiLineComment = FALSE],
     processedLine |-> Trim(AfterFirst(processedLine, TERMINATOR))]

\* one pass of the loop body over one line
ClassifyLine(st, ln) ==
    LET trimmedLine == Trim(ln)
    IN  IF trimmedLine = <<>> THEN EmptyLine(st)
        ELSE IF st.inMultiLineComment /\ ~Includes(trimmedLine, TERMINATOR)
        THEN InsideComment(st)
        ELSE LET c == IF st.inMultiLineComment
                      THEN CloseComment(st, trimmedLine)
                      ELSE [st |-> st, processedLine |-> trimmedLine]
             IN  IF Includes(c.processedLine, OPENER) /\ ~MatchesBlock(c.processedLine)
                 THEN BlockStart(c.st, c.processedLine)
                 ELSE CodeAndComments(c.st, c.processedLine)

RECURSIVE CountFrom(_, _)
CountFrom(st, lines) ==
    IF lines = <<>> THEN st
    ELSE CountFrom(ClassifyLine(st, Head(lines)), Tail(lines))

\* countCodeLines as a function of its argument
countCodeLines(lines) ==
    LET r == CountFrom(ZeroCounters, lines)
    IN  [codeLines |-> r.codeLines, commentLines |-> r.commentLines,
         emptyLines |-> r.emptyLines, importLines |-> r.importLines]

InitClassify ==
    /\ pc = "loop"
    /\ ClassifierAtStart /\ WalkerAtStart /\ AnalyzeAtStart

\* one iteration of for (const line of lines): the iterator yields the next
\* line and the loop body classifies it
Classify ==
    /\ pc = "loop"
    /\ nread < MaxLines
    /\ nread' = nread + 1
    /\ \E ln \in Lines :
          /\ line' = ln
          /\ \E r \in {ClassifyLine(Counters, ln)} :
                /\ codeLines' = r.codeLines
                /\ commentLines' = r.commentLines
                /\ emptyLines' = r.emptyLines
                /\ importLines' = r.importLines
                /\ inMultiLineComment' = r.inMultiLineComment
    /\ pc' = "next"
    /\ UNCHANGED before
    /\ UNCHANGED <<walkerVars, analyzeVars>>

\* back to the loop head: the iteration's line goes out of scope
EndIteration ==
    /\ pc = "next"
    /\ pc' = "loop"
    /\ line' = <<>>
    /\ before' = Counters
    /\ UNCHANGED <<nread, codeLines, commentLines, emptyLines, importLines,
                   inMultiLineComment>>
    /\ UNCHANGED <<walkerVars, analyzeVars>>

\* the iterator is exhausted: return the four counters
Return ==
    /\ pc = "loop"
    /\ pc' = "done"
    /\ UNCHANGED classifierVars
    /\ UNCHANGED <<walkerVars, analyzeVars>>

NextClassify == Classify \/ EndIteration \/ Return

SpecClassify == InitClassify /\ [][NextClassify]_vars

(* ----------------------- paths and ignore rules ----------------------- *)
SEP == "/"       \* path.sep
NEWLINE == "\n"
Cwd == <<"/", "w">>      \* process.cwd()

\* s.split(sep) for a one-character separator
RECURSIVE Split(_, _)
Split(s, sep) ==
    LET i == IndexOf(s, <<sep>>, 1)
    IN  IF i = 0 THEN <<s>>
        ELSE <<SubSeq(s, 1, i - 1)>> \o Split(SubSeq(s, i + 1, Len(s)), sep)

EndsWith(s, pat) == OccursAt(s, pat, Len(s) - Len(pat) + 1)

\* path.join(dir, name)
PathJoin(dir, name) == dir \o <<SEP>> \o name

\* path.relative(from, to) for a path to at or below from
PathRelative(from, to) ==
    IF to = from THEN <<>> ELSE SubSeq(to, Len(from) + 2, Len(to))

\* the constructor's fixed set of directory names
ignoredDirs ==
    { <<"n","o","d","e","_","m","o","d","u","l","e","s">>,
      <<"d","i","s","t">>, <<"b","u","i","l","d">>, <<".","g","i","t">>,
      <<".","v","s","c","o","d","e">>, <<".","i","d","e","a">>,
      <<".","n","e","x","t">>, <<"c","o","v","e","r","a","g","e">>,
      <<".","n","y","c","_","o","u","t","p","u","t">>,
      <<"o","u","t">>, <<"l","i","b">> }

\* A compiled pattern is a sequence of regular-expression items:
\*   [k |-> "ch", c |-> x]   the character x, literally
\*   [k |-> "seg"]           [^/]*
\*   [k |-> "all"]           .*
\*   [k |-> "dir"]           (/.*)?$
Ch(c) == [k |-> "ch", c |-> c]
RawStar == [k |-> "raw", c |-> "*"]

\* .replace(/\./g, '\\.'): every dot becomes a literal dot; the other
\* characters of the pattern stand for themselves, the star is still raw
EscapeDots(pattern) ==
    [i \in 1..Len(pattern) |-> IF pattern[i] = "*" THEN RawStar ELSE Ch(pattern[i])]

\* .replace(/\*/g, '[^/]*')
StarsToSegment(re) ==
    [i \in 1..Len(re) |-> IF re[i] = RawStar THEN [k |-> "seg"] ELSE re[i]]

\* .replace(/\*\*/g, '.*'): two raw stars in a row become .*
RECURSIVE DoubleStarsToAll(_)
DoubleStarsToAll(re) ==
    IF Len(re) < 2 THEN re
    ELSE IF re[1] = RawStar /\ re[2] = RawStar
         THEN <<[k |-> "all"]>> \o DoubleStarsToAll(SubSeq(re, 3, Len(re)))
         ELSE <<re[1]>> \o DoubleStarsToAll(Tail(re))

convertGitignoreToRegex(pattern) ==
    LET regexPattern == DoubleStarsToAll(StarsToSegment(EscapeDots(pattern)))
    IN  IF EndsWith(pattern, <<SEP>>)
        THEN SubSeq(regexPattern, 1, Len(regexPattern) - 1) \o <<[k |-> "dir"]>>
        ELSE regexPattern

\* the items of re from r on match s from position i on
RECURSIVE MatchAt(_, _, _, _)
MatchAt(re, r, s, i) ==
    IF r > Len(re) THEN TRUE
    ELSE CASE re[r].k = "ch" ->
                i <= Len(s) /\ s[i] = re[r].c /\ MatchAt(re, r + 1, s, i + 1)
           [] re[r].k = "raw" ->
                i <= Len(s) /\ s[i] = re[r].c /\ MatchAt(re, r + 1, s, i + 1)
           [] re[r].k = "seg" ->
                \E n \in 0..(Len(s) + 1 - i) :
                    /\ \A h \in i..(i + n - 1) : s[h] # SEP
                    /\ MatchAt(re, r + 1, s, i + n)
           [] re[r].k = "all" ->
                \E n \in 0..(Len(s) + 1 - i) : MatchAt(re, r + 1, s, i + n)
           [] re[r].k = "dir" ->
                (i = Len(s) + 1 \/ (i <= Len(s) /\ s[i] = SEP)) /\ r = Len(re)

\* regex.test(s): a match may start anywhere
RegexTest(re, s) == \E i \in 1..(Len(s) + 1) : MatchAt(re, 1, s, i)

\* variant of shouldIgnorePath: the fixed names are not consulted
ShouldIgnorePatternsOnly(relativePath, isDirectory) ==
    \E n \in 1..Len(gitignorePatterns) : RegexTest(gitignorePatterns[n], relativePath)

shouldIgnorePath(relativePath, isDirectory) ==
    LET pathParts == Split(relativePath, SEP)
    IN  \/ \E n \in 1..Len(pathParts) : pathParts[n] \in ignoredDirs
        \/ \E n \in 1..Len(gitignorePatterns) : RegexTest(gitignorePatterns[n], relativePath)

\* /\.(ts|tsx)$/.test(name)
IsTsName(name) ==
    EndsWith(name, <<".", "t", "s">>) \/ EndsWith(name, <<".", "t", "s", "x">>)

(* ----------------------------- the inputs ----------------------------- *)
\* the names the entries of the scanned tree take
\* a directory entry; one that is not a directory is a regular file (an entry
\* that is neither takes the branch of SkipOther as well)
Dirent(name, isDirectory) == [name |-> name, isDirectory |-> isDirectory]

Dirents ==
    { Dirent(<<"l","i","b">>, TRUE),
      Dirent(<<"s">>, TRUE), Dirent(<<"s">>, FALSE),
      Dirent(<<"a",".","t","s">>, TRUE), Dirent(<<"a",".","t","s">>, FALSE) }

\* what readdirSync may return: up to MaxEntries entries with distinct names
RECURSIVE Listings(_)
Listings(n) ==
    IF n = 0 THEN {<<>>}
    ELSE LET shorter == Listings(n - 1)
         IN  shorter \cup
             {Append(l, e) : l \in {m \in shorter : Len(m) = n - 1},
                             e \in Dirents}

DistinctNames(l) == \A a, b \in 1..Len(l) : a # b => l[a].name # l[b].name

AllListings == {l \in Listings(MaxEntries) : DistinctNames(l)}

\* the lines a .gitignore file is made of: two patterns, a comment, a blank line
StarTs == <<"*", ".", "t", "s">>
LibSlash == <<"l", "i", "b", "/">>
CommentLine == <<"#", "s">>
BlankLine == <<" ">>

RECURSIVE JoinLines(_)
JoinLines(ls) ==
    IF ls = <<>> THEN <<>>
    ELSE IF Len(ls) = 1 THEN ls[1]
    ELSE ls[1] \o <<NEWLINE>> \o JoinLines(Tail(ls))

\* the contents the .gitignore file takes
GitignoreContents ==
    { <<>>,
      JoinLines(<<CommentLine, BlankLine, LibSlash>>),
      JoinLines(<<LibSlash, <<>>, StarTs, <<>> >>) }

(* ---------------------- constructor, loadGitignore -------------------- *)
\* the patterns loadGitignore compiles from the file's content
CompilePatterns(content) ==
    LET trimmed == [n \in 1..Len(Split(content, NEWLINE)) |->
                        Trim(Split(content, NEWLINE)[n])]
        IsPattern(l) == l # <<>> /\ ~StartsWith(l, <<"#">>)
        kept == SelectSeq(trimmed, IsPattern)
    IN  [n \in 1..Len(kept) |-> convertGitignoreToRegex(kept[n])]

InitWalk ==
    /\ pc = "new"
    /\ ClassifierAtStart /\ WalkerAtStart /\ AnalyzeAtStart

\* no .gitignore in the working directory
LoadGitignoreAbsent ==
    /\ pc = "new"
    /\ pc' = "call"
    /\ UNCHANGED <<classifierVars, walkerVars, analyzeVars>>

\* the file exists and reading it throws: warn, keep the empty list
LoadGitignoreUnreadable ==
    /\ pc = "new"
    /\ pc' = "call"
    /\ UNCHANGED <<classifierVars, walkerVars, analyzeVars>>

LoadGitignore ==
    /\ pc = "new"
    /\ \E content \in GitignoreContents :
           gitignorePatterns' = CompilePatterns(content)
    /\ pc' = "call"
    /\ UNCHANGED <<classifierVars, analyzeVars, stack, files, listed, dirsRead, failures>>

(* ---------------------------- findTsFiles ----------------------------- *)
\* a call in progress: its directory and the entries its loop has yet to visit
Frame(dir, items) == [dir |-> dir, items |-> items]
Top == stack[Len(stack)]
Pop == SubSeq(stack, 1, Len(stack) - 1)
Item == Top.items[1]
ItemFullPath == PathJoin(Top.dir, Item.name)
ItemRelativePath == PathRelative(Cwd, ItemFullPath)
Advance == [stack EXCEPT ![Len(stack)].items = Tail(@)]

\* analyze calls findTsFiles() on the working directory
CallFindTsFiles ==
    /\ pc = "call"
    /\ pc' = "readdir"
    /\ stack' = <<Frame(Cwd, <<>>)>>
    /\ UNCHANGED <<classifierVars, analyzeVars, gitignorePatterns, files, listed, dirsRead, failures>>

\* readdirSync returns the directory's entries
ReadDirOk ==
    /\ pc = "readdir"
    /\ dirsRead < MaxDirs
    /\ dirsRead' = dirsRead + 1
    /\ \E items \in AllListings :
          /\ stack' = [stack EXCEPT ![Len(stack)].items = items]
          /\ listed' = listed \cup
                 {[relativePath |-> PathRelative(Cwd, PathJoin(Top.dir, items[n].name)),
                   name |-> items[n].name,
                   isDirectory |-> items[n].isDirectory] : n \in 1..Len(items)}
    /\ pc' = "loop"
    /\ UNCHANGED <<classifierVars, analyzeVars, gitignorePatterns, files, failures>>

\* variant of ReadDirThrows: the failure ends the whole walk
ReadDirThrowsAbortsWalk ==
    /\ pc = "readdir"
    /\ failures' = failures \cup {[dir |-> PathRelative(Cwd, Top.dir), collected |-> Len(files)]}
    /\ stack' = <<>>
    /\ pc' = "done"
    /\ UNCHANGED <<classifierVars, analyzeVars, gitignorePatterns, files, listed, dirsRead>>

\* readdirSync throws: the call warns and returns files
ReadDirThrows ==
    /\ pc = "readdir"
    /\ failures' = failures \cup {[dir |-> PathRelative(Cwd, Top.dir), collected |-> Len(files)]}
    /\ stack' = Pop
    /\ pc' = IF Len(stack) = 1 THEN "done" ELSE "loop"
    /\ UNCHANGED <<classifierVars, analyzeVars, gitignorePatterns, files, listed, dirsRead>>

\* the entry is ignored: continue
SkipIgnored ==
    /\ pc = "loop" /\ stack # <<>> /\ Top.items # <<>>
    /\ shouldIgnorePath(ItemRelativePath, Item.isDirectory)
    /\ stack' = Advance
    /\ UNCHANGED <<pc, classifierVars, analyzeVars, gitignorePatterns, files, listed, dirsRead, failures>>

\* the entry is a directory: the recursive call
Descend ==
    /\ pc = "loop" /\ stack # <<>> /\ Top.items # <<>>
    /\ Item.isDirectory
    /\ ~shouldIgnorePath(ItemRelativePath, Item.isDirectory)
    /\ stack' = Append(Advance, Frame(ItemFullPath, <<>>))
    /\ pc' = "readdir"
    /\ UNCHANGED <<classifierVars, analyzeVars, gitignorePatterns, files, listed, dirsRead, failures>>

\* the entry is a .ts or .tsx file: push its handle
Collect ==
    /\ pc = "loop" /\ stack # <<>> /\ Top.items # <<>>
    /\ ~Item.isDirectory /\ IsTsName(Item.name)
    /\ ~shouldIgnorePath(ItemRelativePath, Item.isDirectory)
    /\ files' = Append(files, [fullPath |-> ItemFullPath,
                               relativePath |-> ItemRelativePath,
                               name |-> Item.name])
    /\ stack' = Advance
    /\ UNCHANGED <<pc, classifierVars, analyzeVars, gitignorePatterns, listed, dirsRead, failures>>

\* any other file: nothing
SkipOther ==
    /\ pc = "loop" /\ stack # <<>> /\ Top.items # <<>>
    /\ ~Item.isDirectory /\ ~IsTsName(Item.name)
    /\ ~shouldIgnorePath(ItemRelativePath, Item.isDirectory)
    /\ stack' = Advance
    /\ UNCHANGED <<pc, classifierVars, analyzeVars, gitignorePatterns, files, listed, dirsRead, failures>>

\* the loop is over: return files to the caller
ReturnFiles ==
    /\ pc = "loop" /\ stack # <<>> /\ Top.items = <<>>
    /\ stack' = Pop
    /\ pc' = IF Len(stack) = 1 THEN "done" ELSE "loop"
    /\ UNCHANGED <<classifierVars, analyzeVars, gitignorePatterns, files, listed, dirsRead, failures>>

NextWalk ==
    \/ LoadGitignoreAbsent \/ LoadGitignoreUnreadable \/ LoadGitignore
    \/ CallFindTsFiles \/ ReadDirOk \/ ReadDirThrows
    \/ SkipIgnored \/ Descend \/ Collect \/ SkipOther \/ ReturnFiles

SpecWalk == InitWalk /\ [][NextWalk]_vars

(* ------------------------------ analyze ------------------------------- *)
RankLimit == 5           \* the limit analyze passes to showRankings
UnitStep == 1024         \* formatFileSize divides by 1024
Units == <<"B", "KB", "MB", "GB">>

Handle(relativePath) ==
    [fullPath |-> PathJoin(Cwd, relativePath),
     relativePath |-> relativePath,
     name |-> Split(relativePath, SEP)[Len(Split(relativePath, SEP))]]

\* the handles findTsFiles may return to analyze
Handles ==
    { Handle(<<"a",".","t","s">>),
      Handle(<<"s","/","a",".","t","s">>),
      Handle(<<"s","/","b",".","t","s","x">>) }

RECURSIVE HandleLists(_)
HandleLists(n) ==
    IF n = 0 THEN {<<>>}
    ELSE LET shorter == HandleLists(n - 1)
         IN  shorter \cup
             {Append(l, h) : l \in {m \in shorter : Len(m) = n - 1}, h \in Handles}

DistinctHandles(l) == \A a, b \in 1..Len(l) : a # b => l[a] # l[b]

\* the non-empty results of findTsFiles
AllHandleLists == {l \in HandleLists(MaxFiles) : l # <<>> /\ DistinctHandles(l)}

\* the lines the analyzed files are made of
FileLines ==
    { <<>>, <<"i", " ", "i">>, <<"/", "/">> }

RECURSIVE FileLineLists(_)
FileLineLists(n) ==
    IF n = 0 THEN {<<>>}
    ELSE LET shorter == FileLineLists(n - 1)
         IN  shorter \cup {Append(l, g) : l \in {m \in shorter : Len(m) = n - 1},
                                          g \in FileLines}

\* the contents readFileSync may return; the empty content is the zero-byte file
FileContents == {JoinLines(ls) : ls \in FileLineLists(MaxFileLines)}

ZeroStats ==
    [totalLines |-> 0, codeLines |-> 0, commentLines |-> 0, emptyLines |-> 0,
     importLines |-> 0, fileSize |-> 0]

\* analyzeFile when readFileSync and statSync succeed
StatsOf(content) ==
    LET lines == Split(content, NEWLINE)
        c == countCodeLines(lines)
    IN  [totalLines |-> Len(lines),
         codeLines |-> c.codeLines, commentLines |-> c.commentLines,
         emptyLines |-> c.emptyLines, importLines |-> c.importLines,
         fileSize |-> Len(content)]

\* { ...file, ...stats }
Merge(file, stats) ==
    [fullPath |-> file.fullPath, relativePath |-> file.relativePath, name |-> file.name,
     totalLines |-> stats.totalLines, codeLines |-> stats.codeLines,
     commentLines |-> stats.commentLines, emptyLines |-> stats.emptyLines,
     importLines |-> stats.importLines, fileSize |-> stats.fileSize]

\* variant of KeepFile: the filter on codeLines
KeepFileWithCode(file) == file.codeLines > 0

\* the filter of analyze
KeepFile(file) == file.totalLines > 0

\* a printed number: a value in tenths, or NaN / Infinity
Number(tenths) == [numeric |-> TRUE, text |-> "number", tenths |-> tenths]
NaN == [numeric |-> FALSE, text |-> "NaN", tenths |-> 0]
Infinity == [numeric |-> FALSE, text |-> "Infinity", tenths |-> 0]

\* (num / den) rounded to the nearest tenth, num and den >= 0
Quotient(num, den, scale) ==
    IF den = 0 THEN (IF num = 0 THEN NaN ELSE Infinity)
    ELSE Number((2 * num * scale + den) \div (2 * den))

\* ((part / total) * 100).toFixed(1)
Percentage(part, total) == Quotient(part, total, 1000)

\* Math.round(total / count), in tenths
RoundedAverage(total, count) ==
    LET q == Quotient(total, count, 1)
    IN  IF q.numeric THEN Number(10 * q.tenths) ELSE q

\* formatFileSize(num / den)
RECURSIVE Scaled(_, _, _)
Scaled(num, den, unitIndex) ==
    IF num >= UnitStep * den /\ unitIndex < Len(Units) - 1
    THEN Scaled(num, den * UnitStep, unitIndex + 1)
    ELSE [size |-> Quotient(num, den, 10), unit |-> Units[unitIndex + 1]]

formatFileSize(num, den) ==
    IF den = 0
    THEN (IF num = 0 THEN [size |-> NaN, unit |-> Units[1]]
                     ELSE [size |-> Infinity, unit |-> Units[Len(Units)]])
    ELSE Scaled(num, den, 0)

RECURSIVE Sum(_, _)
Sum(stats, field) ==
    IF stats = <<>> THEN 0 ELSE Head(stats)[field] + Sum(Tail(stats), field)

\* what generateReport prints for fileStats
ReportOf(stats) ==
    LET totalFiles == Len(stats)
        totals == [f \in DOMAIN ZeroStats |-> Sum(stats, f)]
    IN  [totalFiles |-> totalFiles,
         totals |-> totals,
         totalSize |-> formatFileSize(totals.fileSize, 1),
         codePercent |-> Percentage(totals.codeLines, totals.totalLines),
         commentPercent |-> Percentage(totals.commentLines, totals.totalLines),
         importPercent |-> Percentage(totals.importLines, totals.totalLines),
         emptyPercent |-> Percentage(totals.emptyLines, totals.totalLines),
         averageTotalLines |-> RoundedAverage(totals.totalLines, totalFiles),
         averageCodeLines |-> RoundedAverage(totals.codeLines, totalFiles),
         averageFileSize |-> formatFileSize(totals.fileSize, totalFiles)]

\* [...fileStats].sort((a, b) => b[sortBy] - a[sortBy]): stable, descending
RECURSIVE InsertSorted(_, _, _)
InsertSorted(sorted, file, sortBy) ==
    IF sorted = <<>> THEN <<file>>
    ELSE IF Head(sorted)[sortBy] >= file[sortBy]
         THEN <<Head(sorted)>> \o InsertSorted(Tail(sorted), file, sortBy)
         ELSE <<file>> \o sorted

RECURSIVE SortDescending(_, _)
SortDescending(stats, sortBy) ==
    IF stats = <<>> THEN <<>>
    ELSE InsertSorted(SortDescending(SubSeq(stats, 1, Len(stats) - 1), sortBy),
                      stats[Len(stats)], sortBy)

\* the entries showRankings prints
RankingOf(stats, sortBy, limit) ==
    LET sortedFiles == SortDescending(stats, sortBy)
        shown == SubSeq(sortedFiles, 1, IF Len(sortedFiles) < limit
                                        THEN Len(sortedFiles) ELSE limit)
    IN  [n \in 1..Len(shown) |-> shown[n].relativePath]

InitAnalyze ==
    /\ pc = "analyze"
    /\ ClassifierAtStart /\ WalkerAtStart /\ AnalyzeAtStart

\* findTsFiles returns no file: print the message and return
NoFilesFound ==
    /\ pc = "analyze"
    /\ tsFiles' = <<>>
    /\ pc' = "end"
    /\ UNCHANGED <<classifierVars, walkerVars, mapped, outcomes, fileStats, report, ranking>>

\* findTsFiles returns at least one file
FilesFound ==
    /\ pc = "analyze"
    /\ \E l \in AllHandleLists : tsFiles' = l
    /\ pc' = "map"
    /\ UNCHANGED <<classifierVars, walkerVars, mapped, outcomes, fileStats, report, ranking>>

\* the map callback, readFileSync throws: analyzeFile returns the zero record
AnalyzeFileReadFails ==
    /\ pc = "map" /\ Len(mapped) < Len(tsFiles)
    /\ mapped' = Append(mapped, Merge(tsFiles[Len(mapped) + 1], ZeroStats))
    /\ outcomes' = Append(outcomes, "readfail")
    /\ UNCHANGED <<pc, classifierVars, walkerVars, tsFiles, fileStats, report, ranking>>

\* the map callback, statSync throws after the lines were counted
AnalyzeFileStatFails ==
    /\ pc = "map" /\ Len(mapped) < Len(tsFiles)
    /\ mapped' = Append(mapped, Merge(tsFiles[Len(mapped) + 1], ZeroStats))
    /\ outcomes' = Append(outcomes, "statfail")
    /\ UNCHANGED <<pc, classifierVars, walkerVars, tsFiles, fileStats, report, ranking>>

\* the map callback, the file is read
AnalyzeFile ==
    /\ pc = "map" /\ Len(mapped) < Len(tsFiles)
    /\ \E content \in FileContents :
          mapped' = Append(mapped, Merge(tsFiles[Len(mapped) + 1], StatsOf(content)))
    /\ outcomes' = Append(outcomes, "ok")
    /\ UNCHANGED <<pc, classifierVars, walkerVars, tsFiles, fileStats, report, ranking>>

\* .filter(file => file.totalLines > 0)
Filter ==
    /\ pc = "map" /\ Len(mapped) = Len(tsFiles)
    /\ fileStats' = SelectSeq(mapped, KeepFile)
    /\ pc' = "report"
    /\ UNCHANGED <<classifierVars, walkerVars, tsFiles, mapped, outcomes, report, ranking>>

GenerateReport ==
    /\ pc = "report"
    /\ report' = ReportOf(fileStats)
    /\ pc' = "rank"
    /\ UNCHANGED <<classifierVars, walkerVars, tsFiles, mapped, outcomes, fileStats, ranking>>

\* showRankings(fileStats, 'codeLines', 5)
ShowRankings ==
    /\ pc = "rank"
    /\ ranking' = RankingOf(fileStats, "codeLines", RankLimit)
    /\ pc' = "end"
    /\ UNCHANGED <<classifierVars, walkerVars, tsFiles, mapped, outcomes, fileStats, report>>

NextAnalyze ==
    \/ NoFilesFound \/ FilesFound
    \/ AnalyzeFileReadFails \/ AnalyzeFileStatFails \/ AnalyzeFile
    \/ Filter \/ GenerateReport \/ ShowRankings

SpecAnalyze == InitAnalyze /\ [][NextAnalyze]_vars

(* -------------------- properties of countCodeLines -------------------- *)
\* the line of the iteration that has just been classified
Classified == pc = "next"
NonBlank(s) == \E k \in 1..Len(s) : ~IsSpace(s[k])
SameExcept(fields) ==
    \A f \in {"codeLines", "commentLines", "emptyLines", "importLines"} \ fields :
        Counters[f] = before[f]

\* an opener with a terminator at or after its end
TerminatorAfterOpener(s) ==
    \E i \in 1..Len(s), j \in 1..Len(s) :
        OccursAt(s, OPENER, i) /\ OccursAt(s, TERMINATOR, j) /\ j >= i + 2

TextBeforeFirstOpener(s) ==
    \E i \in 1..Len(s) :
        /\ OccursAt(s, OPENER, i)
        /\ \A h \in 1..(i - 1) : ~OccursAt(s, OPENER, h)
        /\ \E k \in 1..(i - 1) : ~IsSpace(s[k])

\* the reference scan of a line's comment markers, left to right
RECURSIVE ScanMode(_, _, _)
ScanMode(s, i, on) ==
    IF i > Len(s) THEN on
    ELSE IF ~on /\ OccursAt(s, OPENER, i) THEN ScanMode(s, i + 2, TRUE)
    ELSE IF on /\ OccursAt(s, TERMINATOR, i) THEN ScanMode(s, i + 2, FALSE)
    ELSE ScanMode(s, i + 1, on)

\* C1: inside a block comment, a non-blank line that holds a terminator adds
\* exactly one to commentLines, nothing to codeLines or importLines, and
\* leaves the classifier outside the block comment.
C1_TerminatorLineIsOneComment ==
    (Classified /\ before.inMultiLineComment /\ NonBlank(line)
        /\ Includes(line, TERMINATOR))
    => /\ commentLines = before.commentLines + 1
       /\ SameExcept({"commentLines"})
       /\ ~inMultiLineComment

\* C2: codeLines and commentLines are each at most the number of non-blank
\* lines consumed (totalLines - emptyLines).
C2_CountersBoundedByNonBlank ==
    /\ codeLines <= nread - emptyLines
    /\ commentLines <= nread - emptyLines

\* C7: every non-blank line adds to codeLines or to commentLines, so
\* codeLines + commentLines >= totalLines - emptyLines.
C7_EveryLineCounted ==
    /\ codeLines + commentLines >= nread - emptyLines
    /\ (Classified /\ NonBlank(line))
         => (codeLines > before.codeLines \/ commentLines > before.commentLines)
    /\ (Classified /\ ~NonBlank(line))
         => (emptyLines = before.emptyLines + 1 /\ SameExcept({"emptyLines"}))

\* C8: a line that is empty after trimming adds one to emptyLines and changes
\* no other counter and not the block-comment mode.
C8_BlankLineOnlyEmpty ==
    (Classified /\ ~NonBlank(line))
    => /\ emptyLines = before.emptyLines + 1
       /\ SameExcept({"emptyLines"})
       /\ inMultiLineComment = before.inMultiLineComment

C8_Witness ==
    /\ Classified /\ line = <<" ">>
    /\ before.inMultiLineComment /\ inMultiLineComment
    /\ emptyLines = 1 /\ commentLines = 1

\* C9: outside a block comment, a non-blank line with an opener and no
\* terminator after an opener enters the block comment, adds one to
\* commentLines, adds one to codeLines iff non-blank text precedes the first
\* opener, and adds nothing to importLines; inside the block comment, a
\* non-blank line without a terminator adds one to commentLines only and
\* keeps the mode.
C9_OpenerEntersBlockComment ==
    /\ (Classified /\ ~before.inMultiLineComment /\ NonBlank(line)
           /\ Includes(line, OPENER) /\ ~TerminatorAfterOpener(line))
       => /\ inMultiLineComment
          /\ commentLines = before.commentLines + 1
          /\ codeLines = before.codeLines + (IF TextBeforeFirstOpener(line) THEN 1 ELSE 0)
          /\ SameExcept({"commentLines", "codeLines"})
    /\ (Classified /\ before.inMultiLineComment /\ NonBlank(line)
           /\ ~Includes(line, TERMINATOR))
       => /\ inMultiLineComment
          /\ commentLines = before.commentLines + 1
          /\ SameExcept({"commentLines"})

C9_Witness ==
    /\ Classified /\ nread = 2
    /\ before = [ZeroCounters EXCEPT !.inMultiLineComment = TRUE,
                                     !.commentLines = 1, !.codeLines = 1]
    /\ NonBlank(line) /\ ~Includes(line, TERMINATOR)
    /\ commentLines = 2 /\ codeLines = 1 /\ inMultiLineComment

\* C10: after each non-blank line the block-comment mode equals the mode a
\* left-to-right scan of the line's openers and terminators produces from
\* the mode before the line.
C10_ModeFollowsReferenceScan ==
    (Classified /\ NonBlank(line))
    => inMultiLineComment = ScanMode(Trim(line), 1, before.inMultiLineComment)

(* --------------------- properties of findTsFiles ---------------------- *)
\* a segment of the path p is one of the fixed ignored names
HasIgnoredSegment(p) ==
    \E i \in 1..Len(p) :
        /\ (i = 1 \/ p[i - 1] = SEP)
        /\ \E j \in i..Len(p) :
              /\ (j = Len(p) \/ p[j + 1] = SEP)
              /\ SubSeq(p, i, j) \in ignoredDirs

\* C3: no collected file has a path segment that is a fixed ignored name,
\* and no findTsFiles call is on a directory with such a segment, whatever
\* the loaded patterns.
C3_IgnoredDirsNeverScanned ==
    /\ \A n \in 1..Len(files) : ~HasIgnoredSegment(files[n].relativePath)
    /\ \A n \in 1..Len(stack) : ~HasIgnoredSegment(PathRelative(Cwd, stack[n].dir))

C3_Witness ==
    /\ pc = "done"
    /\ gitignorePatterns # <<>>
    /\ files # <<>>
    /\ \E e \in listed : e.isDirectory /\ HasIgnoredSegment(e.relativePath)

\* the entry has been listed and no loop has visited it yet
Pending(e) ==
    \E n \in 1..Len(stack) : \E m \in 1..Len(stack[n].items) :
        PathRelative(Cwd, PathJoin(stack[n].dir, stack[n].items[m].name)) = e.relativePath

\* C6: a failed directory read loses that directory's subtree only: every
\* .ts/.tsx file that was listed, is not ignored and whose turn in the loop
\* has come is in files, before and after any failure, and so at the return.
C6_FailedReadLosesOnlySubtree ==
    \A e \in listed :
        (~e.isDirectory /\ IsTsName(e.name) /\ ~shouldIgnorePath(e.relativePath, FALSE)
            /\ ~Pending(e))
        => \E n \in 1..Len(files) : files[n].relativePath = e.relativePath

C6_Witness ==
    /\ pc = "done"
    /\ \E f \in failures : f.collected >= 1 /\ Len(files) > f.collected

(* ----------------------- properties of analyze ------------------------ *)
Reported == pc \in {"rank", "end"} /\ tsFiles # <<>>

ReportNumbers(r) ==
    { r.totalSize.size, r.codePercent, r.commentPercent, r.importPercent,
      r.emptyPercent, r.averageTotalLines, r.averageCodeLines, r.averageFileSize.size }

\* C4: whenever generateReport has run, every percentage and every average
\* it printed is a number: no division had a zero denominator unguarded.
C4_ReportNeverNonNumeric ==
    Reported => \A v \in ReportNumbers(report) : v.numeric

\* the records of mapped whose file was read, in order
RECURSIVE ReadOk(_, _)
ReadOk(records, how) ==
    IF records = <<>> THEN <<>>
    ELSE (IF Head(how) = "ok" THEN <<Head(records)>> ELSE <<>>)
         \o ReadOk(Tail(records), Tail(how))

\* C5: a failed read or stat gives the all-zero record, every file is still
\* analyzed, and the records handed to generateReport and showRankings are
\* exactly those of the files that were read, each with totalLines > 0.
C5_FailedReadsExcluded ==
    /\ \A n \in 1..Len(mapped) :
          outcomes[n] # "ok" =>
             \A f \in DOMAIN ZeroStats : mapped[n][f] = 0
    /\ pc \in {"report", "rank", "end"} /\ tsFiles # <<>> =>
          /\ Len(mapped) = Len(tsFiles)
          /\ \A n \in 1..Len(tsFiles) : mapped[n].fullPath = tsFiles[n].fullPath
          /\ \A n \in 1..Len(fileStats) : fileStats[n].totalLines > 0
          /\ fileStats = ReadOk(mapped, outcomes)
    /\ Reported => report.totalFiles = Len(ReadOk(mapped, outcomes))
    /\ pc = "end" /\ tsFiles # <<>> =>
          Len(ranking) = Len(ReadOk(mapped, outcomes))

C5_Witness ==
    /\ pc = "end"
    /\ outcomes = <<"readfail", "ok">>
    /\ mapped[2].fileSize = 0 /\ mapped[2].totalLines = 1
    /\ Len(fileStats) = 1 /\ fileStats[1] = mapped[2]

====
